---- MODULE Spec2Model ----
(***************************************************************************)
(* BlackRoad Notification Hub (src/src/module.py): the delivery and        *)
(* tracking core over its SQLite store.                                    *)
(*                                                                         *)
(* The store is the pair of committed tables notifications and             *)
(* delivery_log.  A write transaction (the body of a `with conn:` block    *)
(* that has executed a DML statement) works on a private image of the      *)
(* tables, txn, which replaces the committed tables at commit and is       *)
(* dropped at a crash: this is what SQLite in WAL mode gives one           *)
(* connection.  At most one write transaction is open at a time (the       *)
(* database write lock); a second writer waits.                            *)
(*                                                                         *)
(* Callers are the processes of Procs.  send_notification is two steps     *)
(* after its entry (the upsert, then the log insert with the commit), so   *)
(* that other callers and crashes interleave with it; batch_send and       *)
(* retry_failed are loops of sends.  time.time() is the variable clock.    *)
(***************************************************************************)
EXTENDS Integers, Sequences, FiniteSets, TLC

VARIABLES
    notifications,  \* committed rows of table notifications (a set of rows)
    delivery_log,   \* committed rows of table delivery_log, in insertion order
    txn,            \* the open write transaction, or NoTxn
    clock,          \* time.time()
    pc,             \* pc[p]: where caller p stands
    op,             \* op[p]: the public operation caller p is inside
    todo,           \* todo[p]: the notifications p's loop has still to send
    cur,            \* cur[p]: the locals of p's running send_notification
    acc,            \* acc[p]: the result batch_send / retry_failed accumulates
    ret,            \* what the step just taken returned to its caller
    completed,      \* how many send_notification calls have returned
    outbox,         \* the notifications the callers hold and send
    input           \* input[p]: the list p's loop goes through: the argument of
                    \* batch_send, the rows retry_failed fetched

vars == <<notifications, delivery_log, txn, clock, pc, op, todo, cur, acc, ret,
          completed, outbox, input>>

----------------------------------------------------------------------------
(* Bounds of the model *)

\* the clock runs from 1 to MaxClock
MaxClock == 2
\* sends committed plus sends under way never exceed MaxSends
MaxSends == 2

----------------------------------------------------------------------------
(* Values *)

Procs == {"p1", "p2"}

\* Optional[...] values and nullable columns: NULL or Some(x)
NULL == <<>>
Some(x) == <<x>>

\* class Channel
Channel == {"email", "slack", "webhook", "push"}

\* class NotificationStatus
PENDING == "pending"
SENT == "sent"
FAILED == "failed"
READ == "read"
NotificationStatus == {PENDING, SENT, FAILED, READ}

Ids == {"n1", "n2"}

Recipients == {"alice", "bob"}

\* Notification(...): the dataclass as a caller constructs it; status, sent_at
\* and retry_count take the dataclass defaults
Notification(id, type, recipient, subject, body, channel, created_at, metadata) ==
    [id |-> id, type |-> type, recipient |-> recipient, subject |-> subject,
     body |-> body, channel |-> channel, status |-> PENDING, sent_at |-> NULL,
     created_at |-> created_at, metadata |-> metadata, retry_count |-> 0]

\* the notifications the callers have constructed: every member of Channel
\* occurs, and "fax", which is no channel; constructed with the same id,
\* n1 and n2 each come in three versions
Drafts ==
    { Notification("n1", "alert", "alice", "S1", "B1", "email", 1, [priority |-> "high"]),
      Notification("n1", "info", "bob", "S2", "B2", "webhook", 0, [source |-> "system"]),
      Notification("n1", "alert", "alice", "S1", "B1", "fax", 1, [priority |-> "high"]),
      Notification("n2", "info", "bob", "S2", "B2", "slack", 0, [source |-> "system"]),
      Notification("n2", "alert", "alice", "S1", "B2", "push", 0, [priority |-> "high"]),
      Notification("n2", "info", "alice", "S2", "B1", "fax", 1, [source |-> "system"]) }

\* the drafts two concurrent callers send
FewDrafts == { n \in Drafts : n.channel \in {"email", "slack"} \/ (n.id = "n1" /\ n.channel = "fax") }

\* a row put into table notifications beside the API, as the test of
\* retry_failed does: status 'failed' over a channel, metadata '{}', no
\* sent_at, retry_count 0, and no delivery_log row
SeedRow(id, channel) ==
    [id |-> id, type |-> "t", recipient |-> "alice", subject |-> "S", body |-> "B",
     channel |-> channel, status |-> FAILED, sent_at |-> NULL, created_at |-> 0,
     metadata |-> [json |-> <<>>], retry_count |-> 0]

\* the stores such insertions leave
Seeds == SUBSET {SeedRow("n1", "email"), SeedRow("n2", "slack")}

\* the notifications a caller sends that carry a status already: a
\* notification it has just constructed, one it has sent before or read back
CarriedDrafts == { [n EXCEPT !.status = s] : n \in FewDrafts, s \in NotificationStatus }

NoTxn == [owner |-> "none"]
NoReturn == [op |-> "none"]
NoCur == [notification |-> "none"]

\* json.dumps / json.loads of the metadata mapping: the column holds text
json_dumps(m) == [json |-> m]
json_loads(s) == s.json

----------------------------------------------------------------------------
(* send_notification *)

\* (mutant) the enumeration lacks its last member
ChannelAcceptsNoPush(value) == value \in Channel \ {"push"}

\* Channel(value): TRUE when the constructor accepts the value, FALSE when it
\* raises ValueError
ChannelAccepts(value) == value \in Channel

\* (mutant) sent_at is set whether or not the validation succeeded
SendLocalsAlwaysSentAt(n, t) ==
    LET success == ChannelAccepts(n.channel) IN
    [notification |-> n,
     success |-> success,
     error_msg |-> IF success THEN NULL ELSE Some(<<"Unknown channel: ", n.channel>>),
     now |-> t,
     new_status |-> IF success THEN SENT ELSE FAILED,
     sent_at |-> Some(t)]

\* (mutant) a notification that could not be delivered is left pending
SendLocalsPendingOnFailure(n, t) ==
    LET success == ChannelAccepts(n.channel) IN
    [notification |-> n,
     success |-> success,
     error_msg |-> IF success THEN NULL ELSE Some(<<"Unknown channel: ", n.channel>>),
     now |-> t,
     new_status |-> IF success THEN SENT ELSE PENDING,
     sent_at |-> IF success THEN Some(t) ELSE NULL]

\* the locals of send_notification after its validation, at clock reading t
SendLocals(n, t) ==
    LET success == ChannelAccepts(n.channel) IN
    [notification |-> n,
     success |-> success,
     error_msg |-> IF success THEN NULL ELSE Some(<<"Unknown channel: ", n.channel>>),
     now |-> t,
     new_status |-> IF success THEN SENT ELSE FAILED,
     sent_at |-> IF success THEN Some(t) ELSE NULL]

\* (mutant) the row takes the status of the notification object
NotificationRowObjectStatus(f) ==
    [id |-> f.notification.id,
     type |-> f.notification.type,
     recipient |-> f.notification.recipient,
     subject |-> f.notification.subject,
     body |-> f.notification.body,
     channel |-> f.notification.channel,
     status |-> f.notification.status,
     sent_at |-> f.sent_at,
     created_at |-> f.notification.created_at,
     metadata |-> json_dumps(f.notification.metadata),
     retry_count |-> f.notification.retry_count]

\* (mutant) the row takes the sent_at of the notification object
NotificationRowObjectSentAt(f) ==
    [id |-> f.notification.id,
     type |-> f.notification.type,
     recipient |-> f.notification.recipient,
     subject |-> f.notification.subject,
     body |-> f.notification.body,
     channel |-> f.notification.channel,
     status |-> f.new_status,
     sent_at |-> f.notification.sent_at,
     created_at |-> f.notification.created_at,
     metadata |-> json_dumps(f.notification.metadata),
     retry_count |-> f.notification.retry_count]

\* the row send_notification writes into notifications
NotificationRow(f) ==
    [id |-> f.notification.id,
     type |-> f.notification.type,
     recipient |-> f.notification.recipient,
     subject |-> f.notification.subject,
     body |-> f.notification.body,
     channel |-> f.notification.channel,
     status |-> f.new_status,
     sent_at |-> f.sent_at,
     created_at |-> f.notification.created_at,
     metadata |-> json_dumps(f.notification.metadata),
     retry_count |-> f.notification.retry_count]

\* (mutant) every attempt is logged as a success
DeliveryLogRowAlwaysSuccess(f, rowid) ==
    [id |-> rowid,
     notification_id |-> f.notification.id,
     channel |-> f.notification.channel,
     attempt_at |-> f.now,
     success |-> 1,
     error_msg |-> f.error_msg,
     latency_ms |-> 0]

\* the row send_notification writes into delivery_log; the three clock
\* readings of one send fall on the same tick, so latency_ms is 0
DeliveryLogRow(f, rowid) ==
    [id |-> rowid,
     notification_id |-> f.notification.id,
     channel |-> f.notification.channel,
     attempt_at |-> f.now,
     success |-> IF f.success THEN 1 ELSE 0,
     error_msg |-> f.error_msg,
     latency_ms |-> 0]

\* (mutant) the insert takes no notice of a row of the same id
InsertBesides(table, row) == table \cup {row}

\* (mutant) a row of the id that is there keeps its channel
InsertKeepingChannel(table, row) ==
    {r \in table : r.id # row.id}
    \cup { [row EXCEPT !.channel = r.channel] : r \in {x \in table : x.id = row.id} }
    \cup (IF \E r \in table : r.id = row.id THEN {} ELSE {row})

\* INSERT OR REPLACE INTO notifications: id is the PRIMARY KEY
InsertOrReplace(table, row) == {r \in table : r.id # row.id} \cup {row}

\* (mutant) the insert replaces the earlier attempts of the notification
InsertLogReplacing(log, f) ==
    LET kept == SelectSeq(log, LAMBDA e : e.notification_id # f.notification.id)
    IN Append(kept, DeliveryLogRow(f, Len(log) + 1))

\* INSERT INTO delivery_log: id is INTEGER PRIMARY KEY AUTOINCREMENT
InsertLog(log, f) == Append(log, DeliveryLogRow(f, Len(log) + 1))

\* sends under way: a running send, and the sends a loop has still to make
Pending(p) == Len(todo[p]) + (IF pc[p] \in {"upsert", "log"} THEN 1 ELSE 0)

RECURSIVE SumPending(_)
SumPending(S) ==
    IF S = {} THEN 0
    ELSE LET p == CHOOSE q \in S : TRUE IN Pending(p) + SumPending(S \ {p})

\* the sends there is room for within MaxSends
Free == MaxSends - Len(delivery_log) - SumPending(Procs)

\* send_notification(notification), up to the `with` block
send_notification(p, n) ==
    /\ pc[p] = "idle"
    /\ Free >= 1
    /\ pc' = [pc EXCEPT ![p] = "upsert"]
    /\ op' = [op EXCEPT ![p] = "send_notification"]
    /\ cur' = [cur EXCEPT ![p] = SendLocals(n, clock)]
    /\ ret' = NoReturn
    /\ UNCHANGED <<outbox, input, completed, notifications, delivery_log, txn, clock, todo, acc>>

\* (mutant) the retry leaves retry_count as it was
SendBeginNoIncrement(p) ==
    /\ pc[p] = "begin"
    /\ cur' = [cur EXCEPT ![p] = SendLocals(Head(todo[p]), clock)]
    /\ todo' = [todo EXCEPT ![p] = Tail(@)]
    /\ pc' = [pc EXCEPT ![p] = "upsert"]
    /\ ret' = NoReturn
    /\ UNCHANGED <<outbox, input, completed, notifications, delivery_log, txn, clock, op, acc>>

\* the next send of a batch_send or retry_failed loop, up to the `with` block;
\* retry_failed adds one to retry_count first
SendBegin(p) ==
    /\ pc[p] = "begin"
    /\ LET h == Head(todo[p])
           n == IF op[p] = "retry_failed"
                THEN [h EXCEPT !.retry_count = @ + 1] ELSE h
       IN cur' = [cur EXCEPT ![p] = SendLocals(n, clock)]
    /\ todo' = [todo EXCEPT ![p] = Tail(@)]
    /\ pc' = [pc EXCEPT ![p] = "upsert"]
    /\ ret' = NoReturn
    /\ UNCHANGED <<outbox, input, completed, notifications, delivery_log, txn, clock, op, acc>>

\* (mutant) the connection commits each statement as it is executed
SendUpsertAutocommit(p) ==
    /\ pc[p] = "upsert"
    /\ txn = NoTxn
    /\ notifications' = InsertOrReplace(notifications, NotificationRow(cur[p]))
    /\ txn' = [owner |-> p, notifications |-> notifications', delivery_log |-> delivery_log]
    /\ pc' = [pc EXCEPT ![p] = "log"]
    /\ ret' = NoReturn
    /\ UNCHANGED <<outbox, input, completed, delivery_log, clock, op, todo, cur, acc>>

\* the first statement of the `with` block opens the write transaction
SendUpsert(p) ==
    /\ pc[p] = "upsert"
    /\ txn = NoTxn
    /\ txn' = [owner |-> p,
               notifications |-> InsertOrReplace(notifications, NotificationRow(cur[p])),
               delivery_log |-> delivery_log]
    /\ pc' = [pc EXCEPT ![p] = "log"]
    /\ ret' = NoReturn
    /\ UNCHANGED <<outbox, input, completed, notifications, delivery_log, clock, op, todo, cur, acc>>

\* (mutant) the mapping keeps the first value stored under a key
AccumulateFirstWins(p, id, success) ==
    IF op[p] = "batch_send" THEN acc[p] @@ (id :> success)
    ELSE IF op[p] = "retry_failed" THEN acc[p] + (IF success THEN 1 ELSE 0)
    ELSE acc[p]

\* what the caller's loop holds after a send returned success
Accumulate(p, id, success) ==
    IF op[p] = "batch_send" THEN (id :> success) @@ acc[p]
    ELSE IF op[p] = "retry_failed" THEN acc[p] + (IF success THEN 1 ELSE 0)
    ELSE acc[p]

\* the second statement of the `with` block, and the commit on leaving it;
\* send_notification returns success to its caller, and a loop goes on to
\* its next notification or returns
SendLogCommit(p) ==
    /\ pc[p] = "log"
    /\ notifications' = txn.notifications
    /\ delivery_log' = InsertLog(txn.delivery_log, cur[p])
    /\ txn' = NoTxn
    /\ cur' = [cur EXCEPT ![p] = NoCur]
    /\ LET success == cur[p].success
           a == Accumulate(p, cur[p].notification.id, success)
       IN IF op[p] = "send_notification"
          THEN /\ ret' = [op |-> op[p], arg |-> cur[p].notification, raised |-> FALSE,
                          val |-> success]
               /\ pc' = [pc EXCEPT ![p] = "idle"]
               /\ op' = [op EXCEPT ![p] = "none"]
               /\ UNCHANGED <<acc, input>>
          ELSE IF todo[p] = <<>>
          THEN /\ ret' = [op |-> op[p], arg |-> input[p], raised |-> FALSE, val |-> a]
               /\ pc' = [pc EXCEPT ![p] = "idle"]
               /\ op' = [op EXCEPT ![p] = "none"]
               /\ acc' = [acc EXCEPT ![p] = 0]
               /\ input' = [input EXCEPT ![p] = <<>>]
          ELSE /\ ret' = NoReturn
               /\ pc' = [pc EXCEPT ![p] = "begin"]
               /\ acc' = [acc EXCEPT ![p] = a]
               /\ UNCHANGED <<op, input>>
    /\ completed' = completed + 1
    /\ UNCHANGED <<outbox, clock, todo>>

----------------------------------------------------------------------------
(* Reading rows back *)

\* _row_to_notification(row) raises ValueError when Channel(row["channel"]) or
\* NotificationStatus(row["status"]) does
RowConverts(row) == ChannelAccepts(row.channel) /\ row.status \in NotificationStatus

\* _row_to_notification(row), for a row it converts
RowToNotification(row) ==
    [id |-> row.id, type |-> row.type, recipient |-> row.recipient,
     subject |-> row.subject, body |-> row.body, channel |-> row.channel,
     status |-> row.status, sent_at |-> row.sent_at, created_at |-> row.created_at,
     metadata |-> json_loads(row.metadata), retry_count |-> row.retry_count]

\* the orders in which a SELECT without ORDER BY may return the rows S
AnyOrder(S) ==
    { s \in [1..Cardinality(S) -> S] : \A i, j \in DOMAIN s : i # j => s[i] # s[j] }

\* (mutant) the ORDER BY clause says ASC
OrderByCreatedAtAsc(S) ==
    { s \in AnyOrder(S) : \A i, j \in DOMAIN s : i < j => s[i].created_at <= s[j].created_at }

\* ... ORDER BY created_at DESC: rows of equal created_at come in any order
OrderByCreatedAtDesc(S) ==
    { s \in AnyOrder(S) : \A i, j \in DOMAIN s : i < j => s[i].created_at >= s[j].created_at }

\* SELECT * FROM notifications WHERE recipient = ? AND status = 'sent'
UnreadRows(recipient) ==
    { r \in notifications : r.recipient = recipient /\ r.status = SENT }

\* get_unread(recipient): one SELECT over the committed table; it returns the
\* converted rows, or raises the ValueError of _row_to_notification
get_unread(p, recipient) ==
    /\ pc[p] = "idle"
    /\ \E rows \in OrderByCreatedAtDesc(UnreadRows(recipient)) :
         ret' = IF \A i \in DOMAIN rows : RowConverts(rows[i])
                THEN [op |-> "get_unread", arg |-> recipient, raised |-> FALSE,
                      val |-> [i \in DOMAIN rows |-> RowToNotification(rows[i])]]
                ELSE [op |-> "get_unread", arg |-> recipient, raised |-> TRUE,
                      val |-> "ValueError"]
    /\ UNCHANGED <<outbox, input, completed, notifications, delivery_log, txn, clock, pc, op, todo, cur, acc>>

----------------------------------------------------------------------------
(* mark_read, batch_send, retry_failed *)

\* UPDATE notifications SET status = 'read' WHERE id = ? AND status != 'pending'
MarkReadMatches(table, id) == { r \in table : r.id = id /\ r.status # PENDING }

\* (mutant) the comparison is off by one
MarkReadResultAtLeastZero(table, id) == Cardinality(MarkReadMatches(table, id)) >= 0

\* return res.rowcount > 0
MarkReadResult(table, id) == Cardinality(MarkReadMatches(table, id)) > 0

\* (mutant) the UPDATE lacks `id = ?` in its WHERE clause
MarkReadUpdateEveryRow(table, id) ==
    { IF r.status # PENDING THEN [r EXCEPT !.status = READ] ELSE r : r \in table }

MarkReadUpdate(table, id) ==
    { IF r \in MarkReadMatches(table, id) THEN [r EXCEPT !.status = READ] ELSE r :
      r \in table }

\* mark_read(notification_id): one UPDATE in its own transaction; it
\* returns rowcount > 0
mark_read(p, id) ==
    /\ pc[p] = "idle"
    /\ txn = NoTxn
    /\ notifications' = MarkReadUpdate(notifications, id)
    /\ ret' = [op |-> "mark_read", arg |-> id, raised |-> FALSE,
               val |-> MarkReadResult(notifications, id)]
    /\ UNCHANGED <<outbox, input, completed, delivery_log, txn, clock, pc, op, todo, cur, acc>>

\* the lists batch_send is called with: the lists over the outbox for which
\* there is room
BatchInputs == UNION { [1..k -> outbox] : k \in 0..Free }

\* batch_send(notifications): the dict comprehension sends in list order
batch_send(p, ns) ==
    /\ pc[p] = "idle"
    /\ IF ns = <<>>
       THEN /\ ret' = [op |-> "batch_send", arg |-> ns, raised |-> FALSE, val |-> <<>>]
            /\ UNCHANGED <<pc, op, todo, acc, input>>
       ELSE /\ ret' = NoReturn
            /\ pc' = [pc EXCEPT ![p] = "begin"]
            /\ op' = [op EXCEPT ![p] = "batch_send"]
            /\ todo' = [todo EXCEPT ![p] = ns]
            /\ acc' = [acc EXCEPT ![p] = <<>>]
            /\ input' = [input EXCEPT ![p] = ns]
    /\ UNCHANGED <<outbox, completed, notifications, delivery_log, txn, clock, cur>>

\* SELECT * FROM notifications WHERE status = 'failed'
FailedRows == { r \in notifications : r.status = FAILED }

\* retry_failed(): loads the failed rows, converts them all, then sends each
retry_failed(p) ==
    /\ pc[p] = "idle"
    /\ \E rows \in AnyOrder(FailedRows) :
         IF \E i \in DOMAIN rows : ~RowConverts(rows[i])
         THEN /\ ret' = [op |-> "retry_failed", arg |-> rows, raised |-> TRUE,
                         val |-> "ValueError"]
              /\ UNCHANGED <<pc, op, todo, acc, input>>
         ELSE IF rows = <<>>
         THEN /\ ret' = [op |-> "retry_failed", arg |-> rows, raised |-> FALSE, val |-> 0]
              /\ UNCHANGED <<pc, op, todo, acc, input>>
         ELSE /\ Free >= Len(rows)
              /\ ret' = NoReturn
              /\ pc' = [pc EXCEPT ![p] = "begin"]
              /\ op' = [op EXCEPT ![p] = "retry_failed"]
              /\ todo' = [todo EXCEPT ![p] = [i \in DOMAIN rows |-> RowToNotification(rows[i])]]
              /\ acc' = [acc EXCEPT ![p] = 0]
              /\ input' = [input EXCEPT ![p] = rows]
    /\ UNCHANGED <<outbox, completed, notifications, delivery_log, txn, clock, cur>>

----------------------------------------------------------------------------
(* The environment *)

\* (mutant) the writes of the open transaction survive the crash
CrashKeepsWrites(p) ==
    /\ pc[p] \in {"begin", "upsert", "log"}
    /\ notifications' = IF txn.owner = p THEN txn.notifications ELSE notifications
    /\ txn' = IF txn.owner = p THEN NoTxn ELSE txn
    /\ pc' = [pc EXCEPT ![p] = "idle"]
    /\ todo' = [todo EXCEPT ![p] = <<>>]
    /\ cur' = [cur EXCEPT ![p] = NoCur]
    /\ acc' = [acc EXCEPT ![p] = 0]
    /\ op' = [op EXCEPT ![p] = "none"]
    /\ input' = [input EXCEPT ![p] = <<>>]
    /\ ret' = NoReturn
    /\ UNCHANGED <<outbox, completed, delivery_log, clock>>

\* the process of caller p dies inside an operation, or a storage error ends
\* the operation; the store rolls its uncommitted transaction back
Crash(p) ==
    /\ pc[p] \in {"begin", "upsert", "log"}
    /\ txn' = IF txn.owner = p THEN NoTxn ELSE txn
    /\ pc' = [pc EXCEPT ![p] = "idle"]
    /\ todo' = [todo EXCEPT ![p] = <<>>]
    /\ cur' = [cur EXCEPT ![p] = NoCur]
    /\ acc' = [acc EXCEPT ![p] = 0]
    /\ op' = [op EXCEPT ![p] = "none"]
    /\ input' = [input EXCEPT ![p] = <<>>]
    /\ ret' = NoReturn
    /\ UNCHANGED <<outbox, completed, notifications, delivery_log, clock>>

Tick ==
    /\ clock < MaxClock
    /\ clock' = clock + 1
    /\ ret' = NoReturn
    /\ UNCHANGED <<outbox, input, completed, notifications, delivery_log, txn, pc, op, todo, cur, acc>>

----------------------------------------------------------------------------
(* The specifications: the callers run against a store init_db created     *)
(* empty.  Spec has one caller, SpecConc two.                              *)

\* the store as init_db creates it, and the callers in Procs \ off ready
Start(off) ==
    /\ notifications = {}
    /\ delivery_log = <<>>
    /\ txn = NoTxn
    /\ clock = 1
    /\ pc = [p \in Procs |-> IF p \in off THEN "off" ELSE "idle"]
    /\ op = [p \in Procs |-> "none"]
    /\ todo = [p \in Procs |-> <<>>]
    /\ cur = [p \in Procs |-> NoCur]
    /\ acc = [p \in Procs |-> 0]
    /\ input = [p \in Procs |-> <<>>]
    /\ ret = NoReturn
    /\ completed = 0

\* one caller
Init == Start({"p2"}) /\ outbox = Drafts

\* two callers
InitConc == Start({}) /\ outbox = FewDrafts

Next ==
    \/ \E p \in Procs : \E n \in outbox : send_notification(p, n)
    \/ \E p \in Procs : \E ns \in BatchInputs : batch_send(p, ns)
    \/ \E p \in Procs : SendBegin(p)
    \/ \E p \in Procs : SendUpsert(p)
    \/ \E p \in Procs : SendLogCommit(p)
    \/ \E p \in Procs : \E id \in Ids : mark_read(p, id)
    \/ \E p \in Procs : \E r \in Recipients : get_unread(p, r)
    \/ \E p \in Procs : retry_failed(p)
    \/ \E p \in Procs : Crash(p)
    \/ Tick

\* one caller over a store that holds failed rows with a channel that is valid
InitSeeded ==
    /\ notifications \in Seeds
    /\ delivery_log = <<>>
    /\ txn = NoTxn
    /\ clock = 1
    /\ pc = [p \in Procs |-> IF p = "p1" THEN "idle" ELSE "off"]
    /\ op = [p \in Procs |-> "none"]
    /\ todo = [p \in Procs |-> <<>>]
    /\ cur = [p \in Procs |-> NoCur]
    /\ acc = [p \in Procs |-> 0]
    /\ input = [p \in Procs |-> <<>>]
    /\ ret = NoReturn
    /\ completed = 0
    /\ outbox = FewDrafts

Spec == Init /\ [][Next]_vars

SpecSeeded == InitSeeded /\ [][Next]_vars

\* two callers over a store that holds failed rows with a channel that is valid
InitSeededConc ==
    /\ notifications \in Seeds
    /\ delivery_log = <<>>
    /\ txn = NoTxn
    /\ clock = 1
    /\ pc = [p \in Procs |-> "idle"]
    /\ op = [p \in Procs |-> "none"]
    /\ todo = [p \in Procs |-> <<>>]
    /\ cur = [p \in Procs |-> NoCur]
    /\ acc = [p \in Procs |-> 0]
    /\ input = [p \in Procs |-> <<>>]
    /\ ret = NoReturn
    /\ completed = 0
    /\ outbox = FewDrafts

SpecSeededConc == InitSeededConc /\ [][Next]_vars

\* one caller, sending notifications that carry any status
InitCarried == Start({"p2"}) /\ outbox = CarriedDrafts

SpecCarried == InitCarried /\ [][Next]_vars

SpecConc == InitConc /\ [][Next]_vars

----------------------------------------------------------------------------
(* What the claims speak of *)

\* the rows of notification id in a table, and the stored ones
RowsOf(table, id) == { r \in table : r.id = id }
Stored(id) == RowsOf(notifications, id)

\* the delivery-log rows of notification id
LogOf(log, id) == { i \in DOMAIN log : log[i].notification_id = id }

\* this step is a send_notification of caller p returning (to its caller or
\* to the loop it runs in), not a crash; cur[p].success is what it returns
SendCompletes(p) ==
    /\ pc[p] = "log"
    /\ pc'[p] # "log"
    /\ pc'[p] = "begin" \/ ret'.op \in {"send_notification", "batch_send", "retry_failed"}

\* the value a direct call returning in this step hands to its caller
DirectReturn(p, val) ==
    op[p] = "send_notification" => (ret'.op = "send_notification" /\ ~ret'.raised /\ ret'.val = val)

\* this step is a mark_read(id) call
MarkReadCalled(id) == ret'.op = "mark_read" /\ ret'.arg = id

----------------------------------------------------------------------------
(* send_notification on a fresh id *)

\* C1: a send (direct, or of a batch_send or retry_failed loop) of a
\* notification whose channel is a member of Channel and whose id has no
\* stored row returns true and leaves a stored row of that id with status
\* SENT and a non-null sent_at, and exactly one delivery-log row of that id,
\* with success = 1.
C1_FreshSendSucceeds ==
    [][ \A p \in Procs :
          (/\ SendCompletes(p)
           /\ cur[p].notification.channel \in Channel
           /\ Stored(cur[p].notification.id) = {})
          => LET id == cur[p].notification.id IN
             /\ cur[p].success = TRUE
             /\ DirectReturn(p, TRUE)
             /\ \E r \in notifications' : r.id = id /\ r.status = SENT /\ r.sent_at # NULL
             /\ Cardinality(LogOf(delivery_log', id)) = 1
             /\ \A i \in LogOf(delivery_log', id) : delivery_log'[i].success = 1 ]_vars

\* a fresh send over the last member of Channel has returned
C1_Witness ==
    /\ ret.op = "send_notification"
    /\ ret.arg.channel = "push"
    /\ ret.val = TRUE
    /\ Cardinality(LogOf(delivery_log, ret.arg.id)) = 1
    /\ \E r \in notifications : r.id = ret.arg.id /\ r.status = SENT

\* C2: a send (direct, or of a loop) of a notification whose channel is no
\* member of Channel does not raise: it returns false, stores the row with
\* status FAILED and a null sent_at, and appends a delivery-log row of that id
\* with success = 0 and a non-null error message.
C2_BadChannelFails ==
    [][ \A p \in Procs :
          (SendCompletes(p) /\ cur[p].notification.channel \notin Channel)
          => LET id == cur[p].notification.id
                 last == delivery_log'[Len(delivery_log')] IN
             /\ cur[p].success = FALSE
             /\ DirectReturn(p, FALSE)
             /\ \E r \in notifications' : r.id = id /\ r.status = FAILED /\ r.sent_at = NULL
             /\ Len(delivery_log') = Len(delivery_log) + 1
             /\ last.notification_id = id
             /\ last.success = 0
             /\ last.error_msg # NULL ]_vars

\* a send over "fax" has returned false
C2_Witness ==
    /\ ret.op = "send_notification"
    /\ ret.arg.channel = "fax"
    /\ ret.val = FALSE
    /\ \E r \in notifications : r.id = ret.arg.id /\ r.status = FAILED

----------------------------------------------------------------------------
(* mark_read *)

\* C3: mark_read of a stored notification with status SENT sets its status to
\* READ and returns true; no other field of the row, no other row and no
\* delivery-log row changes.
C3_MarkReadSent ==
    [][ \A id \in Ids :
          (MarkReadCalled(id) /\ \E r \in Stored(id) : r.status = SENT)
          => /\ ret'.val = TRUE
             /\ notifications' = { IF r.id = id THEN [r EXCEPT !.status = READ] ELSE r :
                                   r \in notifications }
             /\ delivery_log' = delivery_log ]_vars

\* mark_read has just returned true for a row that is READ now, beside
\* another stored row
C3_Witness ==
    /\ ret.op = "mark_read"
    /\ ret.val = TRUE
    /\ \E r \in notifications : r.id = ret.arg /\ r.status = READ /\ r.sent_at # NULL
    /\ \E r \in notifications : r.id # ret.arg

\* C4: mark_read of a stored notification whose status is READ already
\* returns false and leaves the status READ.
C4_MarkReadAgainReturnsFalse ==
    [][ \A id \in Ids :
          (MarkReadCalled(id) /\ \E r \in Stored(id) : r.status = READ)
          => /\ ret'.val = FALSE
             /\ \A r \in notifications' : r.id = id => r.status = READ ]_vars

\* C5: mark_read of an id without a stored row returns false and leaves every
\* row of notifications and of delivery_log as it was.
C5_MarkReadUnknownId ==
    [][ \A id \in Ids :
          (MarkReadCalled(id) /\ Stored(id) = {})
          => /\ ret'.val = FALSE
             /\ notifications' = notifications
             /\ delivery_log' = delivery_log ]_vars

\* mark_read has just returned false for an id without a row, in a store
\* that holds another notification
C5_Witness ==
    /\ ret.op = "mark_read"
    /\ ret.val = FALSE
    /\ Stored(ret.arg) = {}
    /\ notifications # {}

----------------------------------------------------------------------------
(* get_unread *)

\* C6: whatever sends, batch sends, mark_reads and retries came before,
\* get_unread(r) returns, without raising, each stored notification whose
\* recipient is r and whose status is SENT exactly once and nothing else, in
\* descending order of created_at.
C6_GetUnreadExact ==
    ret.op = "get_unread"
    => /\ ~ret.raised
       /\ { ret.val[i].id : i \in DOMAIN ret.val }
            = { r.id : r \in { x \in notifications : x.recipient = ret.arg /\ x.status = SENT } }
       /\ \A i, j \in DOMAIN ret.val : i # j => ret.val[i].id # ret.val[j].id
       /\ \A i \in DOMAIN ret.val :
            /\ ret.val[i].recipient = ret.arg
            /\ ret.val[i].status = SENT
            /\ ret.val[i].status \notin {READ, FAILED}
       /\ \A i, j \in DOMAIN ret.val :
            i < j => ret.val[i].created_at >= ret.val[j].created_at

\* get_unread has returned two notifications of different created_at
C6_Witness ==
    /\ ret.op = "get_unread"
    /\ ~ret.raised
    /\ Len(ret.val) = 2
    /\ ret.val[1].created_at > ret.val[2].created_at

----------------------------------------------------------------------------
(* The upsert *)

\* C7: no two stored rows have the same id; and when a send (direct, or of a
\* loop) returns, the one stored row of its id carries that send's type,
\* recipient, subject, body, channel and metadata and its outcome, also when
\* a row of that id was stored before.
C7_UpsertById ==
    [][ /\ \A id \in Ids : Cardinality(RowsOf(notifications', id)) <= 1
        /\ \A p \in Procs :
             SendCompletes(p)
             => LET n == cur[p].notification IN
                /\ RowsOf(notifications', n.id) # {}
                /\ \A r \in RowsOf(notifications', n.id) :
                     /\ r.type = n.type
                     /\ r.recipient = n.recipient
                     /\ r.subject = n.subject
                     /\ r.body = n.body
                     /\ r.channel = n.channel
                     /\ json_loads(r.metadata) = n.metadata
                     /\ r.status = IF cur[p].success THEN SENT ELSE FAILED
                     /\ (r.sent_at # NULL) = cur[p].success
                /\ DirectReturn(p, cur[p].success) ]_vars

\* a send has returned whose id had been sent before with other data and the
\* other outcome
C7_Witness ==
    /\ ret.op = "send_notification"
    /\ ret.val = TRUE
    /\ Len(delivery_log) = 2
    /\ delivery_log[1].notification_id = ret.arg.id
    /\ delivery_log[1].success = 0
    /\ delivery_log[1].channel # ret.arg.channel
    /\ \E r \in Stored(ret.arg.id) : r.recipient = "bob"

----------------------------------------------------------------------------
(* Atomicity of the two writes of a send *)

\* C8: with two callers interleaving send, batch_send and retry_failed, the
\* committed tables change by a send only in one step that holds both of its
\* writes: a step that stores or changes a notification row other than by
\* mark_read also appends one delivery-log row, a step that appends a
\* delivery-log row is the return of a send whose notification row is stored
\* by that same step, a returning send appends exactly one delivery-log row,
\* of its id, and the number of delivery-log rows is the number of sends that
\* returned.
C8_SendIsAtomic ==
    [][ /\ (notifications' # notifications /\ ret'.op # "mark_read")
           => Len(delivery_log') = Len(delivery_log) + 1
        /\ delivery_log' # delivery_log
           => \E p \in Procs :
                /\ SendCompletes(p)
                /\ NotificationRow(cur[p]) \in notifications'
        /\ \A p \in Procs :
             SendCompletes(p)
             => /\ Len(delivery_log') = Len(delivery_log) + 1
                /\ SubSeq(delivery_log', 1, Len(delivery_log)) = delivery_log
                /\ delivery_log'[Len(delivery_log')].notification_id = cur[p].notification.id
        /\ Len(delivery_log') = completed' ]_vars

\* two sends have overlapped and returned: the one that read the clock later
\* has committed first
C8_Witness ==
    /\ completed = 2
    /\ Len(delivery_log) = 2
    /\ delivery_log[1].attempt_at > delivery_log[2].attempt_at

----------------------------------------------------------------------------
(* Referential integrity of the two tables *)

\* C9: in every state, among them the states a crash in the middle of a send
\* leaves, every delivery-log row has the id of a stored notification, every
\* stored notification has a delivery-log row, and every notification with
\* status SENT has a delivery-log row with success = 1.
C9_TablesAgree ==
    /\ \A i \in DOMAIN delivery_log : Stored(delivery_log[i].notification_id) # {}
    /\ \A r \in notifications : LogOf(delivery_log, r.id) # {}
    /\ \A r \in notifications :
         r.status = SENT => \E i \in LogOf(delivery_log, r.id) : delivery_log[i].success = 1

\* a send has made its first write over a store that holds a SENT notification: a
\* crash here leaves the committed tables of this state
C9_Witness ==
    /\ txn # NoTxn
    /\ txn.notifications # notifications
    /\ \E r \in notifications : r.status = SENT
    /\ \E p \in Procs : pc[p] = "log" /\ ENABLED Crash(p)

----------------------------------------------------------------------------
(* The delivery log *)

\* C10: the delivery log is append-only: a step of any operation leaves every
\* delivery-log row there is with all its fields and in its place.
C10_LogAppendOnly ==
    [][ /\ Len(delivery_log') >= Len(delivery_log)
        /\ \A i \in DOMAIN delivery_log : delivery_log'[i] = delivery_log[i] ]_vars

\* a later send of the same id has returned and the row of the earlier one is there
C10_Witness ==
    /\ Len(delivery_log) = 2
    /\ delivery_log[1].notification_id = delivery_log[2].notification_id
    /\ delivery_log[1].success # delivery_log[2].success

----------------------------------------------------------------------------
(* The life of a stored row *)

\* C11: READ is terminal: a step of any operation (among them a send of a
\* notification of the same id) leaves a stored notification whose status is
\* READ with the status READ.
C11_ReadIsTerminal ==
    [][ \A id \in Ids :
          (\E r \in Stored(id) : r.status = READ)
          => \E r \in RowsOf(notifications', id) : r.status = READ ]_vars

\* C12: a stored notification has a non-null sent_at only when a send of its
\* id has succeeded, and a step of any operation (a later send of the same
\* id, successful or failed, mark_read, retry_failed) leaves a non-null
\* sent_at as it is.
C12_SentAtImmutable ==
    [][ /\ \A r \in notifications' :
             r.sent_at # NULL
             => \E i \in LogOf(delivery_log', r.id) : delivery_log'[i].success = 1
        /\ \A id \in Ids : \A r \in Stored(id) :
             r.sent_at # NULL
             => \E q \in RowsOf(notifications', id) : q.sent_at = r.sent_at ]_vars

----------------------------------------------------------------------------
(* retry_failed *)

\* C13: a step of any operation (among them the send of a notification a
\* caller constructed over a stored id) leaves the stored retry_count of a
\* notification id as it was or higher.
C13_RetryCountNeverDecreases ==
    [][ \A id \in Ids : \A r \in Stored(id) :
          \E q \in RowsOf(notifications', id) : q.retry_count >= r.retry_count ]_vars

\* the ids of the rows of a list
IdsOf(rows) == { rows[i].id : i \in DOMAIN rows }

\* C14: retry_failed, run by the one caller there is, over failed
\* notifications that all have a recognized channel: it fetches every
\* notification that is FAILED; while it runs, the rows of the other
\* notifications stay as they are; and when it returns, each fetched
\* notification is stored with status SENT, a non-null sent_at, a retry_count
\* one higher than fetched and its other fields as fetched, the delivery log
\* ends with one row with success = 1 per fetched notification, in the order
\* of the retries, and the value returned is the number of the notifications
\* that became SENT.
C14_RetryFailedAlone ==
    [][ \A p \in Procs :
          /\ (op'[p] = "retry_failed" /\ op[p] # "retry_failed")
             => /\ { input'[p][i] : i \in DOMAIN input'[p] }
                     = { r \in notifications : r.status = FAILED }
                /\ Len(input'[p]) = Cardinality({ r \in notifications : r.status = FAILED })
          /\ op[p] = "retry_failed"
             => \A q \in notifications : q.id \notin IdsOf(input[p]) => q \in notifications'
          /\ (op[p] = "retry_failed" /\ ret'.op = "retry_failed")
             => LET rows == input[p]
                    k == Len(rows)
                    base == Len(delivery_log') - k
                IN /\ ~ret'.raised
                   /\ \A i \in DOMAIN rows :
                        /\ [rows[i] EXCEPT !.status = SENT, !.retry_count = @ + 1,
                                           !.sent_at = Some(delivery_log'[base + i].attempt_at)]
                              \in notifications'
                        /\ delivery_log'[base + i].notification_id = rows[i].id
                        /\ delivery_log'[base + i].success = 1
                   /\ Len(delivery_log') = completed'
                   /\ ret'.val = k
                   /\ ret'.val = Cardinality({ q \in notifications' :
                                                 q.id \in IdsOf(rows) /\ q.status = SENT }) ]_vars

\* retry_failed has returned 2: both notifications that were FAILED are SENT
\* after their first retry
C14_Witness ==
    /\ ret.op = "retry_failed"
    /\ ~ret.raised
    /\ Len(ret.arg) = 2
    /\ ret.val = 2
    /\ \A id \in Ids : \E r \in Stored(id) : r.status = SENT /\ r.retry_count = 1
    /\ Len(delivery_log) = 2

\* this step is caller p calling retry_failed
RetryFailedCalled(p) ==
    /\ pc[p] = "idle"
    /\ \/ op'[p] = "retry_failed"
       \/ pc'[p] = "idle" /\ ret'.op = "retry_failed"

\* C15: retry_failed over a store that holds a FAILED notification with an
\* unrecognized channel, stored by a send, does not raise: it takes that
\* notification into its loop with the other FAILED ones, and when it
\* returns, the notification is stored FAILED with a retry_count one higher,
\* the delivery log has one more row of it with success = 0, and the value
\* returned counts the fetched notifications with a recognized channel alone.
C15_RetryFailedOverBadChannel ==
    [][ \A p \in Procs :
          /\ (/\ RetryFailedCalled(p)
              /\ \E r \in notifications : r.status = FAILED /\ r.channel \notin Channel)
             => /\ op'[p] = "retry_failed"
                /\ ~(ret'.op = "retry_failed" /\ ret'.raised)
                /\ { input'[p][i] : i \in DOMAIN input'[p] }
                     = { r \in notifications : r.status = FAILED }
          /\ (op[p] = "retry_failed" /\ ret'.op = "retry_failed")
             => /\ ~ret'.raised
                /\ \A i \in DOMAIN input[p] :
                     input[p][i].channel \notin Channel
                     => /\ [input[p][i] EXCEPT !.retry_count = @ + 1] \in notifications'
                        /\ \E j \in LogOf(delivery_log', input[p][i].id) :
                             j > Len(delivery_log') - Len(input[p]) /\ delivery_log'[j].success = 0
                /\ ret'.val = Cardinality({ i \in DOMAIN input[p] :
                                              input[p][i].channel \in Channel }) ]_vars

----------------------------------------------------------------------------
(* batch_send *)

\* the place of the last element of list ns that has the id
LastOf(ns, id) ==
    CHOOSE i \in DOMAIN ns : ns[i].id = id /\ \A j \in DOMAIN ns : ns[j].id = id => j <= i

\* C16: batch_send sends each element of its list once and in the order of
\* the list, an element with an unrecognized channel among them: each send
\* of its loop is the send of the next element and appends one delivery-log
\* row, and no other step of the call changes the log; when it returns, the
\* delivery log ends with one row per element, in the order of the list and
\* with the outcome of that element, the mapping returned has the ids of the
\* list as its keys, and under each id the outcome of the last element of
\* that id, whose fields the stored row of the id carries.  Over the empty
\* list it returns the empty mapping and changes nothing.
C16_BatchSendInOrder ==
    [][ \A p \in Procs :
          /\ op[p] = "batch_send"
             => IF SendCompletes(p)
                THEN /\ cur[p].notification = input[p][Len(input[p]) - Len(todo[p])]
                     /\ Len(delivery_log') = Len(delivery_log) + 1
                ELSE delivery_log' = delivery_log
          /\ (op[p] = "batch_send" /\ ret'.op = "batch_send")
             => LET ns == input[p]
                    base == Len(delivery_log') - Len(ns)
                IN /\ ~ret'.raised
                   /\ \A i \in DOMAIN ns :
                        /\ delivery_log'[base + i].notification_id = ns[i].id
                        /\ delivery_log'[base + i].channel = ns[i].channel
                        /\ delivery_log'[base + i].success
                             = (IF ns[i].channel \in Channel THEN 1 ELSE 0)
                   /\ DOMAIN ret'.val = IdsOf(ns)
                   /\ \A id \in IdsOf(ns) :
                        LET n == ns[LastOf(ns, id)] IN
                        /\ ret'.val[id] = (n.channel \in Channel)
                        /\ \E r \in RowsOf(notifications', id) :
                             /\ r.type = n.type
                             /\ r.recipient = n.recipient
                             /\ r.subject = n.subject
                             /\ r.body = n.body
                             /\ r.channel = n.channel
                             /\ r.status = (IF n.channel \in Channel THEN SENT ELSE FAILED)
          /\ (pc[p] = "idle" /\ pc'[p] = "idle" /\ ret'.op = "batch_send")
             => /\ ret'.val = <<>>
                /\ ~ret'.raised
                /\ notifications' = notifications
                /\ delivery_log' = delivery_log ]_vars

\* batch_send has returned from a list of two elements of one id, the first
\* with an unrecognized channel: the mapping has the one key, with the
\* outcome of the second
C16_Witness ==
    /\ ret.op = "batch_send"
    /\ Len(ret.arg) = 2
    /\ ret.arg[1].channel \notin Channel
    /\ DOMAIN ret.val = {"n1"}
    /\ ret.val["n1"] = TRUE
    /\ Len(delivery_log) = 2
    /\ delivery_log[1].success = 0
    /\ delivery_log[2].success = 1
    /\ \E r \in Stored("n1") : r.status = SENT

----------------------------------------------------------------------------
(* get_notification, notification_stats *)

\* get_notification(notification_id): one SELECT over the committed table; it
\* returns None, or the converted row, or raises the ValueError of
\* _row_to_notification
get_notification(p, id) ==
    /\ pc[p] = "idle"
    /\ LET found == { r \in notifications : r.id = id } IN
       ret' = IF found = {}
              THEN [op |-> "get_notification", arg |-> id, raised |-> FALSE, val |-> NULL]
              ELSE LET row == CHOOSE r \in found : TRUE IN
                   IF RowConverts(row)
                   THEN [op |-> "get_notification", arg |-> id, raised |-> FALSE,
                         val |-> Some(RowToNotification(row))]
                   ELSE [op |-> "get_notification", arg |-> id, raised |-> TRUE,
                         val |-> "ValueError"]
    /\ UNCHANGED <<outbox, input, completed, notifications, delivery_log, txn, clock, pc, op,
                   todo, cur, acc>>

\* the channel arguments notification_stats is called with: None, a channel,
\* a string that is the channel of no row
Filters == {NULL, Some("email"), Some("sms")}

\* `if channel`: None and the empty string do not filter
Filtering(channel) == channel # NULL /\ channel # Some("")

\* ... FROM notifications {where}
WhereChannel(table, channel) ==
    IF Filtering(channel) THEN { r \in table : r.channel = channel[1] } ELSE table

\* ... FROM delivery_log {dl_where}: the places of the rows selected
LogWhereChannel(log, channel) ==
    IF Filtering(channel) THEN { i \in DOMAIN log : log[i].channel = channel[1] }
    ELSE DOMAIN log

\* SELECT status, COUNT(*) ... GROUP BY status, as the dict built from it
StatusMap(rows) ==
    [s \in { r.status : r \in rows } |-> Cardinality({ r \in rows : r.status = s })]

\* SELECT channel, COUNT(*) ... GROUP BY channel, as the dict built from it
ChannelMap(rows) ==
    [c \in { r.channel : r \in rows } |-> Cardinality({ r \in rows : r.channel = c })]

\* (mutant) without attempts the rate counts as full
DeliveryRateFullWhenIdle(successful, total_attempts) ==
    IF total_attempts # 0
    THEN (2 * successful * 10000 + total_attempts) \div (2 * total_attempts)
    ELSE 10000

\* round(successful / total_attempts * 100, 2) if total_attempts else 0.0,
\* in hundredths of a percent
DeliveryRate(successful, total_attempts) ==
    IF total_attempts # 0
    THEN (2 * successful * 10000 + total_attempts) \div (2 * total_attempts)
    ELSE 0

\* notification_stats(channel), up to its first SELECT: the count of the
\* notifications.  The connection opens no transaction for a SELECT, so each
\* of the five SELECTs reads the tables as committed when it runs.
notification_stats(p, channel) ==
    /\ pc[p] = "idle"
    /\ pc' = [pc EXCEPT ![p] = "by_status"]
    /\ op' = [op EXCEPT ![p] = "notification_stats"]
    /\ cur' = [cur EXCEPT ![p] =
                 [channel |-> channel,
                  total |-> Cardinality(WhereChannel(notifications, channel))]]
    /\ ret' = NoReturn
    /\ UNCHANGED <<outbox, input, completed, notifications, delivery_log, txn, clock, todo, acc>>

\* the second SELECT: the counts by status
StatsByStatus(p) ==
    /\ pc[p] = "by_status"
    /\ pc' = [pc EXCEPT ![p] = "by_channel"]
    /\ cur' = [cur EXCEPT ![p] =
                 [channel |-> cur[p].channel, total |-> cur[p].total,
                  status_map |-> StatusMap(WhereChannel(notifications, cur[p].channel))]]
    /\ ret' = NoReturn
    /\ UNCHANGED <<outbox, input, completed, notifications, delivery_log, txn, clock, op, todo,
                   acc>>

\* the third SELECT: the counts by channel
StatsByChannel(p) ==
    /\ pc[p] = "by_channel"
    /\ pc' = [pc EXCEPT ![p] = "total_attempts"]
    /\ cur' = [cur EXCEPT ![p] =
                 [channel |-> cur[p].channel, total |-> cur[p].total,
                  status_map |-> cur[p].status_map,
                  channel_map |-> ChannelMap(WhereChannel(notifications, cur[p].channel))]]
    /\ ret' = NoReturn
    /\ UNCHANGED <<outbox, input, completed, notifications, delivery_log, txn, clock, op, todo,
                   acc>>

\* the fourth SELECT: the count of the delivery attempts
StatsAttempts(p) ==
    /\ pc[p] = "total_attempts"
    /\ pc' = [pc EXCEPT ![p] = "successful"]
    /\ cur' = [cur EXCEPT ![p] =
                 [channel |-> cur[p].channel, total |-> cur[p].total,
                  status_map |-> cur[p].status_map, channel_map |-> cur[p].channel_map,
                  total_attempts |-> Cardinality(LogWhereChannel(delivery_log, cur[p].channel))]]
    /\ ret' = NoReturn
    /\ UNCHANGED <<outbox, input, completed, notifications, delivery_log, txn, clock, op, todo,
                   acc>>

\* the fifth SELECT, the count of the successful attempts, then the rate and
\* the dict returned
StatsSuccessful(p) ==
    /\ pc[p] = "successful"
    /\ LET successful ==
             Cardinality({ i \in LogWhereChannel(delivery_log, cur[p].channel) :
                             delivery_log[i].success = 1 })
       IN ret' = [op |-> "notification_stats", arg |-> cur[p].channel, raised |-> FALSE,
                  val |-> [total_notifications |-> cur[p].total,
                           by_status |-> cur[p].status_map,
                           by_channel |-> cur[p].channel_map,
                           total_delivery_attempts |-> cur[p].total_attempts,
                           successful_deliveries |-> successful,
                           delivery_success_rate_pct |->
                               DeliveryRate(successful, cur[p].total_attempts),
                           filter_channel |-> cur[p].channel]]
    /\ pc' = [pc EXCEPT ![p] = "idle"]
    /\ op' = [op EXCEPT ![p] = "none"]
    /\ cur' = [cur EXCEPT ![p] = NoCur]
    /\ UNCHANGED <<outbox, input, completed, notifications, delivery_log, txn, clock, todo, acc>>

\* the operations with the two that only read
NextRead ==
    \/ Next
    \/ \E p \in Procs : \E id \in Ids : get_notification(p, id)
    \/ \E p \in Procs : \E channel \in Filters : notification_stats(p, channel)
    \/ \E p \in Procs : StatsByStatus(p)
    \/ \E p \in Procs : StatsByChannel(p)
    \/ \E p \in Procs : StatsAttempts(p)
    \/ \E p \in Procs : StatsSuccessful(p)

\* one caller, reading too, over a store that may hold failed rows
SpecRead == InitSeeded /\ [][NextRead]_vars

\* two callers, reading too
SpecStats == InitConc /\ [][NextRead]_vars

\* C17: get_notification(id) of a stored notification does not raise and
\* returns the notification of that id with its stored status; called right
\* after send_notification(n) has returned, true or false, it returns the
\* notification of id n.id with the status the send assigned: SENT over a
\* recognized channel, FAILED over an unrecognized one.
C17_ReadBackAfterSend ==
    [][ ret'.op = "get_notification"
        => /\ Stored(ret'.arg) # {}
              => /\ ~ret'.raised
                 /\ ret'.val # NULL
                 /\ ret'.val[1].id = ret'.arg
                 /\ \E r \in Stored(ret'.arg) : r.status = ret'.val[1].status
           /\ (ret.op = "send_notification" /\ ret'.arg = ret.arg.id)
              => /\ ~ret'.raised
                 /\ ret'.val # NULL
                 /\ ret'.val[1].id = ret.arg.id
                 /\ ret'.val[1].status
                      = (IF ret.arg.channel \in Channel THEN SENT ELSE FAILED) ]_vars

----------------------------------------------------------------------------
(* notification_stats *)

RECURSIVE SumOver(_, _)
\* the sum of the counts of a dict over the keys S
SumOver(f, S) ==
    IF S = {} THEN 0
    ELSE LET k == CHOOSE x \in S : TRUE IN f[k] + SumOver(f, S \ {k})

\* C19: a result of notification_stats, also one computed while another
\* caller sends, batch sends, retries or marks read, is the aggregate of one
\* state of the store: total_notifications is the sum of the by_status counts
\* and the sum of the by_channel counts, and successful_deliveries is at most
\* total_delivery_attempts, so the rate is at most 100 percent.
C19_StatsOfOneState ==
    ret.op = "notification_stats"
    => /\ ret.val.total_notifications = SumOver(ret.val.by_status, DOMAIN ret.val.by_status)
       /\ ret.val.total_notifications = SumOver(ret.val.by_channel, DOMAIN ret.val.by_channel)
       /\ ret.val.successful_deliveries <= ret.val.total_delivery_attempts
       /\ ret.val.delivery_success_rate_pct <= 10000

\* C20: notification_stats, with a channel filter or without, over a store
\* that has no delivery-log row, or none of the channel of the filter,
\* returns without raising total_delivery_attempts 0, successful_deliveries 0
\* and the rate 0.
C20_StatsWithoutAttempts ==
    (ret.op = "notification_stats" /\ LogWhereChannel(delivery_log, ret.arg) = {})
    => /\ ~ret.raised
       /\ ret.val.total_delivery_attempts = 0
       /\ ret.val.successful_deliveries = 0
       /\ ret.val.delivery_success_rate_pct = 0

\* notification_stats has returned, under a filter, over a store that holds
\* a notification of that channel and no delivery-log row
C20_Witness ==
    /\ ret.op = "notification_stats"
    /\ ret.arg = Some("email")
    /\ delivery_log = <<>>
    /\ ret.val.total_notifications = 1
    /\ ret.val.total_delivery_attempts = 0
    /\ ret.val.delivery_success_rate_pct = 0

----------------------------------------------------------------------------
(* Two sends of one id at the same time *)

\* the rows a send of a notification of the outbox writes
RowsSendsWrite ==
    { NotificationRow(SendLocals(n, t)) : n \in outbox, t \in 1..MaxClock }

\* C18: with two callers, sends of one id among them running at the same
\* time: when a send returns, the stored row of its id is in every field the
\* row that send wrote, and its delivery-log row joins those the id has; so
\* every stored row is, in every field, the row one send wrote (with the
\* status READ where mark_read acted since), never fields of two sends.
C18_LastWriteWins ==
    [][ /\ \A p \in Procs :
             SendCompletes(p)
             => LET id == cur[p].notification.id IN
                /\ RowsOf(notifications', id) = {NotificationRow(cur[p])}
                /\ LogOf(delivery_log', id) = LogOf(delivery_log, id) \cup {Len(delivery_log')}
                /\ delivery_log'[Len(delivery_log')] = DeliveryLogRow(cur[p], Len(delivery_log'))
        /\ \A r \in notifications' :
             \E w \in RowsSendsWrite : r = w \/ r = [w EXCEPT !.status = READ] ]_vars

\* two sends of one id over different channels have overlapped and returned:
\* the one that began later has committed first, both delivery-log rows are
\* there and the stored row is that of the send that committed last
C18_Witness ==
    /\ completed = 2
    /\ Len(delivery_log) = 2
    /\ delivery_log[1].notification_id = delivery_log[2].notification_id
    /\ delivery_log[1].channel # delivery_log[2].channel
    /\ delivery_log[1].attempt_at > delivery_log[2].attempt_at
    /\ \E r \in Stored(delivery_log[2].notification_id) :
         /\ r.channel = delivery_log[2].channel
         /\ r.status = SENT
         /\ r.sent_at = Some(delivery_log[2].attempt_at)

----------------------------------------------------------------------------
(* The statuses of stored rows *)

\* C22: a stored notification enters the status READ only from the status
\* SENT: a step after which the row of an id has the status READ finds the
\* row with the status SENT, or READ already.
C22_ReadOnlyFromSent ==
    [][ \A id \in Ids :
          (/\ \E r \in RowsOf(notifications', id) : r.status = READ
           /\ ~\E r \in Stored(id) : r.status = READ)
          => \E r \in Stored(id) : r.status = SENT ]_vars

\* C22, amended: a stored notification enters the status READ only from the
\* status SENT or FAILED, and by mark_read of its id alone: a step after
\* which the row of an id has the status READ finds the row stored with the
\* status SENT, FAILED or READ already, and a send never stores READ,
\* whatever status its notification object carries.
C22_ReadOnlyFromSentOrFailed ==
    [][ \A id \in Ids :
          (/\ \E r \in RowsOf(notifications', id) : r.status = READ
           /\ ~\E r \in Stored(id) : r.status = READ)
          => /\ \E r \in Stored(id) : r.status \in {SENT, FAILED}
             /\ MarkReadCalled(id)
             /\ ret'.val = TRUE ]_vars

\* mark_read has just returned true for a notification that was FAILED: it
\* is READ, and never had a sent_at
C22_Witness ==
    /\ ret.op = "mark_read"
    /\ ret.val = TRUE
    /\ \E r \in Stored(ret.arg) : r.status = READ /\ r.sent_at = NULL /\ r.channel \notin Channel

\* C24: Notification(...) as constructed has the status PENDING, and no
\* stored row has the status PENDING, whatever sends, batch sends, mark_reads
\* and retries came before and whatever status the notification objects
\* sent carried.
C24_PendingNeverStored ==
    /\ \A n \in Drafts : n.status = PENDING
    /\ \A r \in notifications : r.status # PENDING
    /\ txn # NoTxn => \A r \in txn.notifications : r.status # PENDING

\* sends of notification objects that carried PENDING and READ have returned,
\* one delivered and one not
C24_Witness ==
    /\ ret.op = "send_notification"
    /\ ret.arg.status = READ
    /\ ret.val = FALSE
    /\ \E r \in Stored(ret.arg.id) : r.status = FAILED
    /\ \E r \in notifications : r.status = SENT
    /\ PENDING \in { n.status : n \in outbox }

\* C25: in every state a stored notification with the status SENT has a
\* non-null sent_at and a channel of Channel, and a stored notification with
\* the status FAILED has a null sent_at.
C25_StatusAgreesWithSentAt ==
    \A r \in notifications :
      /\ r.status = SENT => (r.sent_at # NULL /\ r.channel \in Channel)
      /\ r.status = FAILED => r.sent_at = NULL

\* the store holds a SENT and a FAILED notification, written by two callers
C25_Witness ==
    /\ \E r \in notifications : r.status = SENT /\ r.sent_at # NULL
    /\ \E r \in notifications : r.status = FAILED /\ r.channel \notin Channel
    /\ completed = 2
    /\ delivery_log[1].attempt_at > delivery_log[2].attempt_at
    /\ delivery_log[1].notification_id # delivery_log[2].notification_id

----------------------------------------------------------------------------
(* Two retries at the same time *)

\* C23: with two callers running retry_failed at the same time over a FAILED
\* notification with a recognized channel: each send of a retry, which adds
\* one delivery-log row of the notification, leaves the stored retry_count of
\* the notification one higher than it was stored before that send.
C23_NoLostIncrement ==
    [][ \A p \in Procs :
          (SendCompletes(p) /\ op[p] = "retry_failed")
          => LET id == cur[p].notification.id IN
             /\ Cardinality(LogOf(delivery_log', id)) = Cardinality(LogOf(delivery_log, id)) + 1
             /\ \A r \in Stored(id) : \A q \in RowsOf(notifications', id) :
                  q.retry_count = r.retry_count + 1 ]_vars

----------------------------------------------------------------------------
(* The newest delivery-log row and the stored status *)

\* the delivery-log rows of id that get_delivery_log may return first:
\* ORDER BY attempt_at DESC puts a row of the greatest attempt_at first
NewestOf(log, id) ==
    { i \in LogOf(log, id) : \A j \in LogOf(log, id) : log[j].attempt_at <= log[i].attempt_at }

\* the delivery-log row of id that was appended last
LastOfLog(log, id) ==
    { i \in LogOf(log, id) : \A j \in LogOf(log, id) : j <= i }

\* C26: for every stored notification with the status SENT or FAILED, also
\* after sends of one id that ran at the same time, the first row of its
\* delivery log ordered newest first (a row of the greatest attempt_at of
\* its id) has success = 1 exactly when the status is SENT.
C26_NewestLogRowAgrees ==
    \A r \in notifications :
      r.status \in {SENT, FAILED}
      => \E i \in NewestOf(delivery_log, r.id) :
           (delivery_log[i].success = 1) <=> (r.status = SENT)

\* C26, amended: for every stored notification with the status SENT or
\* FAILED, also after sends of one id that ran at the same time, the
\* delivery-log row of its id that was appended last (the one with the
\* greatest id) has success = 1 exactly when the status is SENT.
C26_LastLogRowAgrees ==
    \A r \in notifications :
      r.status \in {SENT, FAILED}
      => /\ LastOfLog(delivery_log, r.id) # {}
         /\ \A i \in LastOfLog(delivery_log, r.id) :
              (delivery_log[i].success = 1) <=> (r.status = SENT)

\* two sends of one id have overlapped: the row appended last, a success, is
\* that of the stored status SENT, and the row of the greater attempt_at is
\* the failure before it
C26_Witness ==
    /\ Len(delivery_log) = 2
    /\ delivery_log[1].success = 0
    /\ delivery_log[2].success = 1
    /\ delivery_log[1].attempt_at > delivery_log[2].attempt_at
    /\ \E r \in notifications :
         /\ r.status = SENT
         /\ LastOfLog(delivery_log, r.id) = {2}
         /\ NewestOf(delivery_log, r.id) = {1}

----------------------------------------------------------------------------
(* _simple_render *)

\* a template has at most MaxPieces pieces
MaxPieces == 3

\* A context value: kind is the Python type; text is what str() makes of the
\* value; items is the mapping of a dict, from keys to values.  A key, like
\* every string the renderer takes apart, is a sequence of tokens: names,
\* " " and ".".
StrV(s) == [kind |-> "str", text |-> s, items |-> <<>>]
NoneV == [kind |-> "NoneType", text |-> "None", items |-> <<>>]
DictV(repr, items) == [kind |-> "dict", text |-> repr, items |-> items]

\* the attributes getattr finds on a value that is no dict: a method of str
\* stands for those of the Python types
Attrs(value) == IF value.kind = "str" THEN {<<"upper">>} ELSE {}

\* getattr(value, part) for an attribute there is: the bound method
GetAttr(value, part) ==
    [kind |-> "method", text |-> "<built-in method upper of str object>", items |-> <<>>]

\* the contexts rendered against
Contexts ==
    { DictV("{}", <<>>),
      DictV("{'name': 'Bob'}", <<"name">> :> StrV("Bob")),
      DictV("{'name': 'Bob', 'user': {'name': 'Alice'}}",
            (<<"name">> :> StrV("Bob"))
            @@ (<<"user">> :> DictV("{'name': 'Alice'}", <<"name">> :> StrV("Alice")))),
      DictV("{'user': 'Bob'}", <<"user">> :> StrV("Bob")),
      DictV("{'name': None, 'user': {}}",
            (<<"name">> :> NoneV) @@ (<<"user">> :> DictV("{}", <<>>))),
      NoneV }

\* A piece of a template as re.sub cuts it: text between matches (group1 is
\* NULL), or a match of \{\{(.+?)\}\}, with text its group(0) and group1 the
\* tokens of its group(1); path is the dotted path the placeholder spells
Lit(s) == [text |-> s, group1 |-> NULL, path |-> NULL]
Placeholder(text, inner, path) == [text |-> text, group1 |-> Some(inner), path |-> Some(path)]

Pieces ==
    { Lit("Hello "),
      Placeholder("{{name}}", <<"name">>, << <<"name">> >>),
      Placeholder("{{ name }}", <<" ", "name", " ">>, << <<"name">> >>),
      Placeholder("{{user.name}}", <<"user", ".", "name">>, << <<"user">>, <<"name">> >>),
      Placeholder("{{missing}}", <<"missing">>, << <<"missing">> >>),
      Placeholder("{{user.upper}}", <<"user", ".", "upper">>, << <<"user">>, <<"upper">> >>),
      Placeholder("{{user .name}}", <<"user", " ", ".", "name">>,
                  << <<"user", " ">>, <<"name">> >>) }

Templates == UNION { [1..k -> Pieces] : k \in 0..MaxPieces }

RECURSIVE Strip(_)
\* str.strip(): without the whitespace at both ends
Strip(s) ==
    IF s # <<>> /\ Head(s) = " " THEN Strip(Tail(s))
    ELSE IF s # <<>> /\ s[Len(s)] = " " THEN Strip(SubSeq(s, 1, Len(s) - 1))
    ELSE s

RECURSIVE Split(_)
\* str.split("."): the parts between the dots
Split(s) ==
    IF \E i \in DOMAIN s : s[i] = "."
    THEN LET i == CHOOSE k \in DOMAIN s : s[k] = "." /\ \A j \in 1..(k - 1) : s[j] # "."
         IN <<SubSeq(s, 1, i - 1)>> \o Split(SubSeq(s, i + 1, Len(s)))
    ELSE <<s>>

RECURSIVE Walk(_, _)
\* the loop over the parts: value[part] on a dict, getattr(value, part) on
\* anything else; ok is FALSE when KeyError or AttributeError was raised
Walk(value, parts) ==
    IF parts = <<>> THEN [ok |-> TRUE, value |-> value]
    ELSE LET part == Head(parts) IN
         IF value.kind = "dict"
         THEN IF part \in DOMAIN value.items
              THEN Walk(value.items[part], Tail(parts))
              ELSE [ok |-> FALSE, value |-> value]
         ELSE IF part \in Attrs(value)
              THEN Walk(GetAttr(value, part), Tail(parts))
              ELSE [ok |-> FALSE, value |-> value]

\* (mutant) a placeholder that does not resolve renders as nothing
ReplacerEmptyOnMissing(match, context) ==
    LET found == Walk(context, Split(Strip(match.group1[1])))
    IN IF found.ok THEN found.value.text ELSE ""

\* replacer(match): str(value), or group(0) when the walk raised
Replacer(match, context) ==
    LET found == Walk(context, Split(Strip(match.group1[1])))
    IN IF found.ok THEN found.value.text ELSE match.text

\* re.sub(pattern, replacer, template): the pieces of the output, in order
Render(template, context) ==
    [i \in DOMAIN template |->
       IF template[i].group1 = NULL THEN template[i].text
       ELSE Replacer(template[i], context)]

\* _simple_render(template, context): touches no table; a behaviour holds
\* one rendering
simple_render(p, template, context) ==
    /\ pc[p] = "idle"
    /\ ret = NoReturn
    /\ ret' = [op |-> "simple_render", arg |-> [template |-> template, context |-> context],
               raised |-> FALSE, val |-> Render(template, context)]
    /\ UNCHANGED <<outbox, input, completed, notifications, delivery_log, txn, clock, pc, op,
                   todo, cur, acc>>

NextRender ==
    \E p \in Procs : \E template \in Templates : \E context \in Contexts :
      simple_render(p, template, context)

\* a caller that renders
InitRender == Start({"p2"}) /\ outbox = {}

SpecRender == InitRender /\ [][NextRender]_vars

\* what the placeholder of path `path` resolves to in a context when only
\* mappings are walked: a path of one or two keys
MappingPathResolves(context, path) ==
    /\ context.kind = "dict"
    /\ path[1] \in DOMAIN context.items
    /\ Len(path) = 2
       => /\ context.items[path[1]].kind = "dict"
          /\ path[2] \in DOMAIN context.items[path[1]].items

\* the value at the end of a path of mappings and, last, an attribute
PathValue(context, path) ==
    IF Len(path) = 1 THEN context.items[path[1]]
    ELSE IF context.items[path[1]].kind = "dict"
    THEN context.items[path[1]].items[path[2]]
    ELSE GetAttr(context.items[path[1]], path[2])

\* the second segment of the path names an attribute of a value that is no
\* mapping
AttributePathResolves(context, path) ==
    /\ context.kind = "dict"
    /\ Len(path) = 2
    /\ path[1] \in DOMAIN context.items
    /\ context.items[path[1]].kind # "dict"
    /\ path[2] \in Attrs(context.items[path[1]])

====
